---- MODULE Spec2Model ----
(***************************************************************************)
(* Model of the two MPSC queues of src/src (lossy_queue, the slot-token    *)
(* ring of mpsc_ring.hpp, and stable_queue, the linked queue of            *)
(* mpsc_queue.hpp), from their constructors to their destructors, and of   *)
(* the logger of src/readme.md that runs on the ring.  Every atomic load,  *)
(* store or read-modify-write of the source is                             *)
(* one step of the thread that executes it, as is every access to a slot's *)
(* storage or to a node; the threads interleave freely.  A call's return   *)
(* is part of the call's last step.  The counters are uint64_t in the      *)
(* source; the runs below stay far from 2^64, so they are naturals here.   *)
(***************************************************************************)
EXTENDS Integers, Sequences, FiniteSets, TLC

\* ---------------------------------------------------------------- bounds
NumProducers == 2        \* producer threads
MaxHead == 5             \* tickets m_head.fetch_add hands out in a run of the bare ring
MaxHist == 6             \* calls recorded of a run in which no two calls overlap
MaxSoloHead == 6         \* MaxHead of a run with a single producer thread
MaxSoloHist == 10        \* MaxHist of a run with a single producer thread
MaxPosts == 3            \* post calls in a run of the logger
MaxSpins == 1            \* emplace calls beyond one per post in a run of the logger
MaxNodes == 4            \* nodes the linked queue allocates in a run
MaxRequest == 6          \* largest capacity the constructor is called with

Producers == 1..NumProducers
Capacities == {2, 4}     \* capacities the ring is constructed with
Nodes == 1..MaxNodes     \* addresses the node allocator hands out
NoValue == <<>>          \* raw storage, or an optional, holding no element
MovedFrom == <<"moved-from">>   \* an optional whose element has been moved out
Null == 0                \* nullptr

VARIABLES
  variant,     \* "ring" (lossy_queue) or "linked" (stable_queue)
  facade,      \* TRUE when the ring is driven by logger::post / logger::run
  nprod,       \* number of producer threads of the run
  m_capacity,  \* lossy_queue::m_capacity
  m_mask,      \* lossy_queue::m_mask
  m_head,      \* ring: producer ticket counter; linked: pointer to the newest node
  m_tail,      \* ring: consumer position; linked: pointer to the oldest node
  token,       \* ring: slot index -> slot::token
  storage,     \* ring: slot index -> the element constructed in slot::storage, or NoValue
  nstate,      \* linked: node address -> "unallocated", "live" or "freed"
  nnext,       \* linked: node address -> node::next
  ndata,       \* linked: node address -> node::data
  ppc,         \* producer -> position in its current call
  phead,       \* producer -> ring: local `head` (its ticket); linked: local `prev_head`
  pnode,       \* producer -> linked: local `new_node`
  pret,        \* producer -> value its last emplace returned to logger::post
  pk,          \* producer -> number of its messages already dealt with
  cpc,         \* position of the consumer
  ctail,       \* consumer's local `tail` (ring) or `tail_ptr` (linked)
  cnext,       \* consumer's local `next` (linked)
  cout,        \* consumer's `out` / `elem` (ring) or `result` (linked)
  cret,        \* value the last try_pull returned to logger::run
  stop,        \* stop.stop_requested() of logger::run
  sink,        \* what logger::run has written with fputs
  \* ---- observation of the run (not program state)
  results,     \* ring: ticket+1 -> "pending", "true", "false": what that push returned
  accepted,    \* ring: the messages whose push returned true
  xorder,      \* linked: the messages in the order of their m_head.exchange
  delivered,   \* what successful try_pull / pull calls handed out, in order
  hist,        \* the completed calls of a run in which no two calls overlapped
  seqrun,      \* TRUE while no two calls have overlapped and hist is complete
  \* ---- construction and destruction of the queue
  life,        \* "unborn", "failed" (the constructor threw), "alive", "dying"
               \* (the destructor runs) or "dead"
  reqcap,      \* the capacity_pow2 the constructor was called with
  dt,          \* ~lossy_queue: local `t`
  dh,          \* ~lossy_queue: local `h`
  \* ---- observation of the run (not program state)
  wild,        \* ring: the tickets at which ~T() ran on storage holding no element
  nfrees,      \* linked: node address -> number of deallocate calls on it
  cleared,     \* linked: the messages clear() passed over
  xclear,      \* linked: Len(xorder) when clear() last returned with no push in
               \* progress and no pull has handed out a message since, else -1
  psteps,      \* producer -> steps it has taken in its current call
  csteps       \* steps the consumer has taken in its current call

vars == <<variant, facade, nprod, m_capacity, m_mask, m_head, m_tail, token, storage,
          nstate, nnext, ndata, ppc, phead, pnode, pret, pk,
          cpc, ctail, cnext, cout, cret, stop, sink,
          results, accepted, xorder, delivered, hist, seqrun,
          life, reqcap, dt, dh, wild, nfrees, cleared, xclear, psteps, csteps>>

\* what the ring's threads never touch, and what the linked queue's never touch
linkedVars == <<nstate, nnext, ndata, pnode, cnext, xorder, nfrees, cleared, xclear>>
ringVars == <<m_capacity, m_mask, token, storage, results, accepted>>
loggerVars == <<pret, cret, stop, sink>>
kindVars == <<variant, facade, nprod>>
lifeVars == <<life, reqcap, dt, dh, wild>>
stepVars == <<psteps, csteps>>

\* ------------------------------------------------------ pure helpers

\* a & b on unsigned integers
RECURSIVE BitAnd(_, _)
BitAnd(a, b) ==
  IF a = 0 \/ b = 0 THEN 0
  ELSE (a % 2) * (b % 2) + 2 * BitAnd(a \div 2, b \div 2)

\* mutant: the constructor checks `cap < 2` alone
InvalidCapacity_NoPowerCheck(cap) == cap < 2

\* `cap < 2 || (cap & (cap - 1)) != 0` of the constructor
InvalidCapacity(cap) == cap < 2 \/ BitAnd(cap, cap - 1) # 0

\* m_slots[t & m_mask]
SlotIndex(t, mask) == BitAnd(t, mask)

\* mutant: the producer rejects only on `head_seq > head`
ProducerMayConstruct_Loose(seq, h) == seq <= h

\* `head_seq != head` negated: the producer holding ticket h may construct
ProducerMayConstruct(seq, h) == seq = h

\* mutant: the producer publishes `head`
PublishedToken_NoIncrement(h) == h

\* the token a producer publishes: head + 1
PublishedToken(h) == h + 1

\* mutant: the consumer also claims a slot that is reserved and empty
ConsumerMayClaim_SkipsEmpty(seq, tail) == seq = tail + 1 \/ seq = tail

\* mutant: the consumer gives up only on `tail_seq < tail`
ConsumerMayClaim_Loose(seq, tail) == seq >= tail

\* `tail_seq != tail + 1` negated: the consumer may claim the slot
ConsumerMayClaim(seq, tail) == seq = tail + 1

\* mutant: the consumer stores `tail + 1`, the token it found
FreedToken_Unchanged(tail, cap) == tail + 1

\* mutant: the consumer stores `tail + m_mask`
FreedToken_Mask(tail, cap) == tail + (cap - 1)

\* the token the consumer stores after moving the element out: tail + m_capacity
FreedToken(tail, cap) == tail + cap

\* mutant: the consumer stores `tail` back
NextTail_Same(tail) == tail

\* the value m_tail.store writes: tail + 1
NextTail(tail) == tail + 1

\* the message a producer is sending: its (pk+1)-th
CurrentMsg(p) == <<p, pk[p] + 1>>

RECURSIVE Sum(_, _)
Sum(f, S) == IF S = {} THEN 0 ELSE LET x == CHOOSE y \in S : TRUE IN f[x] + Sum(f, S \ {x})

\* post calls made so far, finished or not
PostsStarted ==
  Sum(pk, Producers) + Cardinality({p \in Producers : ppc[p] # "idle"})

\* tickets one run hands out
TicketLimit ==
  IF facade THEN MaxPosts + MaxSpins
  ELSE IF nprod = 1 THEN MaxSoloHead ELSE MaxHead

\* calls recorded of a run without overlapping calls
HistLimit == IF nprod = 1 THEN MaxSoloHist ELSE MaxHist

AllMessages == Producers \X (1..(MaxHead + MaxSoloHead + MaxPosts + MaxNodes))

\* the element in a slot, with the ticket it was constructed under (observation)
Element(msg, h) == [val |-> msg, ticket |-> h]

\* the message of an element, nothing of storage read while nothing was constructed
ValueOf(e) == IF e = NoValue THEN NoValue ELSE e.val

\* *ptr read through reinterpret_cast<T*>(&storage): the element when one is
\* constructed there, anything at all when none is
ReadStorage(s) ==
  IF storage[s] # NoValue THEN {storage[s]}
  ELSE {Element(m, 0) : m \in AllMessages} \cup {NoValue}

\* a call of some thread is in progress
Busy == cpc # "idle" \/ \E p \in Producers : ppc[p] # "idle"

\* observation at the start of a call: the run stays sequential when nothing else runs
SeqAtCall == seqrun /\ ~Busy /\ Len(hist) < HistLimit

\* ---------------------------------------------------------------- Init

\* lossy_queue(capacity_pow2), for the capacities that pass the check
RingConstructed(cap) ==
  /\ ~InvalidCapacity(cap)
  /\ life = "alive"
  /\ reqcap = cap
  /\ m_capacity = cap
  /\ m_mask = cap - 1
  /\ token = [i \in 0..(cap - 1) |-> i]
  /\ storage = [i \in 0..(cap - 1) |-> NoValue]
  /\ m_head = 0
  /\ m_tail = 0

\* no stable_queue exists
NoLinked ==
  /\ nstate = [n \in Nodes |-> "unallocated"]
  /\ nnext = [n \in Nodes |-> Null]
  /\ ndata = [n \in Nodes |-> NoValue]
  /\ nfrees = [n \in Nodes |-> 0]
  /\ xorder = <<>>

\* the threads before their first call
Quiet ==
  /\ ppc = [p \in Producers |-> "idle"]
  /\ phead = [p \in Producers |-> 0]
  /\ pnode = [p \in Producers |-> Null]
  /\ pret = [p \in Producers |-> FALSE]
  /\ pk = [p \in Producers |-> 0]
  /\ ctail = 0
  /\ cnext = Null
  /\ cout = NoValue
  /\ cret = FALSE
  /\ stop = FALSE
  /\ sink = <<>>
  /\ results = <<>>
  /\ accepted = {}
  /\ delivered = <<>>
  /\ hist = <<>>
  /\ psteps = [p \in Producers |-> 0]
  /\ csteps = 0
  /\ dt = 0
  /\ dh = 0
  /\ wild = {}
  /\ cleared = {}
  /\ xclear = -1

RingInit ==
  /\ variant = "ring"
  /\ facade = FALSE
  /\ nprod \in {1, NumProducers}
  /\ \E cap \in Capacities : RingConstructed(cap)
  /\ NoLinked
  /\ Quiet
  /\ cpc = "idle"
  /\ seqrun = TRUE

\* logger(capacity_pow2) with its consumer thread entering run
LoggerInit ==
  /\ variant = "ring"
  /\ facade = TRUE
  /\ nprod = NumProducers
  /\ \E cap \in Capacities : RingConstructed(cap)
  /\ NoLinked
  /\ Quiet
  /\ cpc = "run_check"
  /\ seqrun = FALSE

\* ------------------------------------------- lossy_queue::emplace_impl

\* mutant: emplace waits for the slot and loads the token again, where the code
\* returns false
EmplaceReturns_Spin(p, ok) ==
  IF ok
  THEN /\ results' = [results EXCEPT ![phead[p] + 1] = "true"]
       /\ accepted' = accepted \cup {CurrentMsg(p)}
       /\ IF facade
          THEN /\ ppc' = [ppc EXCEPT ![p] = "post_loop"]
               /\ pret' = [pret EXCEPT ![p] = ok]
               /\ UNCHANGED <<pk, hist>>
          ELSE /\ ppc' = [ppc EXCEPT ![p] = "idle"]
               /\ pk' = [pk EXCEPT ![p] = @ + 1]
               /\ hist' = IF seqrun THEN Append(hist, <<"push", ok, CurrentMsg(p)>>) ELSE hist
               /\ UNCHANGED pret
  ELSE UNCHANGED <<results, accepted, ppc, pret, pk, hist>>

\* emplace returns ok to its caller: push's caller goes on to its next message,
\* logger::post looks at the value
EmplaceReturns(p, ok) ==
  /\ results' = [results EXCEPT ![phead[p] + 1] = IF ok THEN "true" ELSE "false"]
  /\ accepted' = IF ok THEN accepted \cup {CurrentMsg(p)} ELSE accepted
  /\ IF facade
     THEN /\ ppc' = [ppc EXCEPT ![p] = "post_loop"]
          /\ pret' = [pret EXCEPT ![p] = ok]
          /\ UNCHANGED <<pk, hist>>
     ELSE /\ ppc' = [ppc EXCEPT ![p] = "idle"]
          /\ pk' = [pk EXCEPT ![p] = @ + 1]
          /\ hist' = IF seqrun THEN Append(hist, <<"push", ok, CurrentMsg(p)>>) ELSE hist
          /\ UNCHANGED pret

\* uint64_t head = m_head.fetch_add(1, relaxed)
EmplaceFetchAdd(p) ==
  /\ variant = "ring"
  /\ p <= nprod
  /\ ppc[p] \in {"idle", "post_retry"}
  /\ m_head < TicketLimit
  /\ (facade /\ ppc[p] = "idle") => PostsStarted < MaxPosts
  /\ phead' = [phead EXCEPT ![p] = m_head]
  /\ m_head' = m_head + 1
  /\ ppc' = [ppc EXCEPT ![p] = "e_load_token"]
  /\ results' = Append(results, "pending")
  /\ seqrun' = SeqAtCall
  /\ hist' = IF SeqAtCall THEN hist ELSE <<>>
  /\ psteps' = [psteps EXCEPT ![p] = 1]
  /\ UNCHANGED <<kindVars, lifeVars, csteps, linkedVars, loggerVars, m_capacity, m_mask,
                 m_tail, token,
                 storage, pk, cpc, ctail, cout, accepted, delivered>>

\* head_seq = head_slot.token.load(acquire); if (head_seq != head) return false
EmplaceLoadToken(p) ==
  /\ variant = "ring"
  /\ ppc[p] = "e_load_token"
  /\ LET head_seq == token[SlotIndex(phead[p], m_mask)] IN
       IF ProducerMayConstruct(head_seq, phead[p])
       THEN /\ ppc' = [ppc EXCEPT ![p] = "e_construct"]
            /\ UNCHANGED <<results, accepted, pret, pk, hist>>
       ELSE EmplaceReturns(p, FALSE)
  /\ psteps' = [psteps EXCEPT ![p] = @ + 1]
  /\ UNCHANGED <<kindVars, lifeVars, csteps, linkedVars, m_capacity, m_mask, m_head,
                 m_tail, token,
                 storage, phead, cpc, ctail, cout, cret, stop, sink, delivered, seqrun>>

\* new (ptr) T(std::forward<Args>(args)...)
EmplaceConstruct(p) ==
  /\ variant = "ring"
  /\ ppc[p] = "e_construct"
  /\ storage' = [storage EXCEPT ![SlotIndex(phead[p], m_mask)] =
                                   Element(CurrentMsg(p), phead[p])]
  /\ ppc' = [ppc EXCEPT ![p] = "e_store_token"]
  /\ psteps' = [psteps EXCEPT ![p] = @ + 1]
  /\ UNCHANGED <<kindVars, lifeVars, csteps, linkedVars, loggerVars, m_capacity, m_mask,
                 m_head, m_tail,
                 token, phead, pk, cpc, ctail, cout,
                 results, accepted, delivered, hist, seqrun>>

\* head_slot.token.store(head + 1, release); return true
EmplaceStoreToken(p) ==
  /\ variant = "ring"
  /\ ppc[p] = "e_store_token"
  /\ token' = [token EXCEPT ![SlotIndex(phead[p], m_mask)] = PublishedToken(phead[p])]
  /\ EmplaceReturns(p, TRUE)
  /\ psteps' = [psteps EXCEPT ![p] = @ + 1]
  /\ UNCHANGED <<kindVars, lifeVars, csteps, linkedVars, m_capacity, m_mask, m_head, m_tail,
                 storage, phead, cpc, ctail, cout, cret, stop, sink, delivered, seqrun>>

\* ------------------------------------------------ lossy_queue::try_pull

\* try_pull returns ok to its caller: a bare caller keeps the value, logger::run
\* looks at the result
TryPullReturns(ok) ==
  IF facade
  THEN /\ cpc' = "run_loop"
       /\ cret' = ok
       /\ UNCHANGED <<delivered, hist>>
  ELSE /\ cpc' = "idle"
       /\ delivered' = IF ok THEN Append(delivered, cout) ELSE delivered
       /\ hist' = IF seqrun
                  THEN Append(hist, <<"pull", ok, IF ok THEN ValueOf(cout) ELSE NoValue>>)
                  ELSE hist
       /\ UNCHANGED cret

\* uint64_t tail = m_tail.load(relaxed)
TryPullLoadTail ==
  /\ variant = "ring"
  /\ cpc = "idle"
  /\ ctail' = m_tail
  /\ cpc' = "t_load_token"
  /\ seqrun' = SeqAtCall
  /\ hist' = IF SeqAtCall THEN hist ELSE <<>>
  /\ csteps' = 1
  /\ UNCHANGED <<kindVars, lifeVars, psteps, linkedVars, loggerVars, m_capacity, m_mask,
                 m_head, m_tail,
                 token, storage, ppc, phead, pk, cout, results, accepted, delivered>>

\* tail_seq = tail_slot.token.load(acquire); if (tail_seq != tail + 1) return false
TryPullLoadToken ==
  /\ variant = "ring"
  /\ cpc = "t_load_token"
  /\ LET tail_seq == token[SlotIndex(ctail, m_mask)] IN
       IF ConsumerMayClaim(tail_seq, ctail)
       THEN /\ cpc' = "t_move"
            /\ UNCHANGED <<cret, delivered, hist>>
       ELSE TryPullReturns(FALSE)
  /\ csteps' = csteps + 1
  /\ UNCHANGED <<kindVars, lifeVars, psteps, linkedVars, m_capacity, m_mask, m_head,
                 m_tail, token,
                 storage, ppc, phead, pret, pk, ctail, cout, stop, sink,
                 results, accepted, seqrun>>

\* out = std::move(*ptr); ptr->~T()
TryPullMove ==
  /\ variant = "ring"
  /\ cpc = "t_move"
  /\ \E v \in ReadStorage(SlotIndex(ctail, m_mask)) : cout' = v
  /\ storage' = [storage EXCEPT ![SlotIndex(ctail, m_mask)] = NoValue]
  /\ cpc' = "t_store_token"
  /\ csteps' = csteps + 1
  /\ UNCHANGED <<kindVars, lifeVars, psteps, linkedVars, loggerVars, m_capacity, m_mask,
                 m_head, m_tail,
                 token, ppc, phead, pk, ctail,
                 results, accepted, delivered, hist, seqrun>>

\* tail_slot.token.store(tail + m_capacity, release)
TryPullStoreToken ==
  /\ variant = "ring"
  /\ cpc = "t_store_token"
  /\ token' = [token EXCEPT ![SlotIndex(ctail, m_mask)] = FreedToken(ctail, m_capacity)]
  /\ cpc' = "t_store_tail"
  /\ csteps' = csteps + 1
  /\ UNCHANGED <<kindVars, lifeVars, psteps, linkedVars, loggerVars, m_capacity, m_mask,
                 m_head, m_tail,
                 storage, ppc, phead, pk, ctail, cout,
                 results, accepted, delivered, hist, seqrun>>

\* m_tail.store(tail + 1, relaxed); return true
TryPullStoreTail ==
  /\ variant = "ring"
  /\ cpc = "t_store_tail"
  /\ m_tail' = NextTail(ctail)
  /\ TryPullReturns(TRUE)
  /\ csteps' = csteps + 1
  /\ UNCHANGED <<kindVars, lifeVars, psteps, linkedVars, m_capacity, m_mask, m_head,
                 token, storage,
                 ppc, phead, pret, pk, ctail, cout, stop, sink,
                 results, accepted, seqrun>>

\* ------------------------------- lossy_queue: constructor and destructor

\* a lossy_queue object that is not constructed yet, its threads not started
RingLifeInit ==
  /\ variant = "ring"
  /\ facade = FALSE
  /\ nprod \in {1, NumProducers}
  /\ life = "unborn"
  /\ reqcap = 0
  /\ m_capacity = 0
  /\ m_mask = 0
  /\ token = <<>>
  /\ storage = <<>>
  /\ m_head = 0
  /\ m_tail = 0
  /\ NoLinked
  /\ Quiet
  /\ cpc = "idle"
  /\ seqrun = TRUE

\* lossy_queue(capacity_pow2): throws std::invalid_argument, and no object
\* exists, or sets the members and every slot's token
Construct(cap) ==
  /\ variant = "ring"
  /\ life = "unborn"
  /\ reqcap' = cap
  /\ IF InvalidCapacity(cap)
     THEN /\ life' = "failed"
          /\ UNCHANGED <<m_capacity, m_mask, token, storage, m_head, m_tail>>
     ELSE /\ life' = "alive"
          /\ m_capacity' = cap
          /\ m_mask' = cap - 1
          /\ token' = [i \in 0..(cap - 1) |-> i]
          /\ storage' = [i \in 0..(cap - 1) |-> NoValue]
          /\ m_head' = 0
          /\ m_tail' = 0
  /\ UNCHANGED <<kindVars, stepVars, linkedVars, loggerVars, dt, dh, wild,
                 ppc, phead, pk, cpc, ctail, cout,
                 results, accepted, delivered, hist, seqrun>>

\* ~lossy_queue, called when no thread is in a call:
\* t = m_tail.load(relaxed); h = m_head.load(relaxed)
DestructorLoad ==
  /\ variant = "ring"
  /\ life = "alive"
  /\ ~Busy
  /\ dt' = m_tail
  /\ dh' = m_head
  /\ life' = "dying"
  /\ UNCHANGED <<kindVars, stepVars, linkedVars, loggerVars, ringVars, reqcap, wild,
                 m_head, m_tail, ppc, phead, pk, cpc, ctail, cout,
                 delivered, hist, seqrun>>

\* while (t != h) { ptr = &m_slots[t & m_mask].storage; ptr->~T(); ++t; }
\* one round of the loop.  No token is looked at: ~T() on storage that holds
\* no element is undefined, the ticket is recorded in wild
DestructorDestroy ==
  /\ variant = "ring"
  /\ life = "dying"
  /\ dt # dh
  /\ LET s == SlotIndex(dt, m_mask) IN
       IF storage[s] = NoValue
       THEN wild' = wild \cup {dt} /\ UNCHANGED storage
       ELSE storage' = [storage EXCEPT ![s] = NoValue] /\ UNCHANGED wild
  /\ dt' = dt + 1
  /\ UNCHANGED <<kindVars, stepVars, linkedVars, loggerVars, reqcap, life, dh,
                 m_capacity, m_mask, token, results, accepted,
                 m_head, m_tail, ppc, phead, pk, cpc, ctail, cout,
                 delivered, hist, seqrun>>

\* the loop ends (t == h); the slots are destroyed and the array is released
DestructorRelease ==
  /\ variant = "ring"
  /\ life = "dying"
  /\ dt = dh
  /\ life' = "dead"
  /\ UNCHANGED <<kindVars, stepVars, linkedVars, loggerVars, ringVars, reqcap, dt, dh,
                 wild, m_head, m_tail, ppc, phead, pk, cpc, ctail, cout,
                 delivered, hist, seqrun>>

\* ----------------------------------------------------------- the logger

\* logger::post: while (!queue_.emplace(std::move(text))) ;
PostLoop(p) ==
  /\ facade
  /\ ppc[p] = "post_loop"
  /\ IF pret[p]
     THEN ppc' = [ppc EXCEPT ![p] = "idle"] /\ pk' = [pk EXCEPT ![p] = @ + 1]
     ELSE ppc' = [ppc EXCEPT ![p] = "post_retry"] /\ UNCHANGED pk
  /\ UNCHANGED <<kindVars, lifeVars, stepVars, linkedVars, ringVars, loggerVars, m_head,
                 m_tail, phead,
                 cpc, ctail, cout, delivered, hist, seqrun>>

\* logger::run: while (!stop.stop_requested()) { std::string elem; ...
RunCheckStop ==
  /\ facade
  /\ cpc = "run_check"
  /\ IF stop
     THEN cpc' = "run_done" /\ UNCHANGED cout
     ELSE cpc' = "idle" /\ cout' = NoValue
  /\ UNCHANGED <<kindVars, lifeVars, stepVars, linkedVars, ringVars, loggerVars, m_head,
                 m_tail,
                 ppc, phead, pk, ctail, delivered, hist, seqrun>>

\* logger::run: while (queue_.try_pull(elem)) std::fputs(elem.data(), stdout);
RunLoop ==
  /\ facade
  /\ cpc = "run_loop"
  /\ IF cret
     THEN cpc' = "idle" /\ sink' = Append(sink, ValueOf(cout))
     ELSE cpc' = "run_check" /\ UNCHANGED sink
  /\ UNCHANGED <<kindVars, lifeVars, stepVars, linkedVars, ringVars, m_head, m_tail, ppc,
                 phead, pret, pk,
                 ctail, cout, cret, stop, delivered, hist, seqrun>>

\* the owner of the consumer thread requests the stop
RequestStop ==
  /\ facade
  /\ ~stop
  /\ stop' = TRUE
  /\ UNCHANGED <<kindVars, lifeVars, stepVars, linkedVars, ringVars, m_head, m_tail, ppc,
                 phead, pret, pk,
                 cpc, ctail, cout, cret, sink, delivered, hist, seqrun>>

\* ------------------------------------------------------- stable_queue

\* stable_queue(): one dummy node, constructed from nullptr alone, is head and tail
LinkedInit ==
  /\ variant = "linked"
  /\ facade = FALSE
  /\ nprod = NumProducers
  /\ m_capacity = 0
  /\ m_mask = 0
  /\ token = <<>>
  /\ storage = <<>>
  /\ nstate = [n \in Nodes |-> IF n = 1 THEN "live" ELSE "unallocated"]
  /\ nnext = [n \in Nodes |-> Null]
  /\ ndata = [n \in Nodes |-> NoValue]
  /\ nfrees = [n \in Nodes |-> 0]
  /\ xorder = <<>>
  /\ life = "alive"
  /\ reqcap = 0
  /\ m_head = 1
  /\ m_tail = 1
  /\ Quiet
  /\ cpc = "idle"
  /\ seqrun = FALSE

\* the address node_allocator_traits::allocate returns: one not handed out before
FreshNode == CHOOSE n \in Nodes : nstate[n] = "unallocated" /\
                                  \A m \in Nodes : nstate[m] = "unallocated" => n <= m

\* n->next.load(): the field of a node that is allocated, anything of one that is not
ReadNext(n) == IF nstate[n] = "live" THEN {nnext[n]} ELSE Nodes \cup {Null}

\* std::move(n->data): the field of a node that is allocated, anything of one that is not
ReadData(n) ==
  IF nstate[n] = "live" THEN {ndata[n]} ELSE AllMessages \cup {NoValue, MovedFrom}

\* mutant: prev_head is read after the new node was stored to m_head
PrevHead_AfterStore(head, new_node) == new_node

\* what m_head.exchange(new_node, acq_rel) returns: the previous head
PrevHead(head, new_node) == head

\* mutant: the producer stores nullptr
LinkedNode_Null(new_node) == Null

\* what prev_head->next.store(new_node, release) writes
LinkedNode(new_node) == new_node

\* mutant: pull moves the data out of the node it is about to free
PulledNode_Tail(tail_ptr, next) == tail_ptr

\* the node whose data pull moves out: next
PulledNode(tail_ptr, next) == next

\* mutant: pull stores tail_ptr back
NewTail_Stale(tail_ptr, next) == tail_ptr

\* what m_tail.store(next, release) writes
NewTail(tail_ptr, next) == next

\* mutant: pull deallocates the node it has just made the tail
FreedNode_Next(tail_ptr, next) == next

\* the node pull destroys and deallocates: tail_ptr
FreedNode(tail_ptr, next) == tail_ptr

\* mutant: clear stores tail_ptr back
ClearNewTail_Stale(tail_ptr, next) == tail_ptr

\* what m_tail.store(next, release) of clear writes
ClearNewTail(tail_ptr, next) == next

\* mutant: clear deallocates the node it has just made the tail
ClearedNode_Next(tail_ptr, next) == next

\* the node clear destroys and deallocates: tail_ptr
ClearedNode(tail_ptr, next) == tail_ptr

\* emplace_impl: new_node = allocate(1); construct(new_node, nullptr, args...)
LinkedEmplaceAllocate(p) ==
  /\ variant = "linked"
  /\ ppc[p] = "idle"
  /\ \E n \in Nodes : nstate[n] = "unallocated"
  /\ pnode' = [pnode EXCEPT ![p] = FreshNode]
  /\ nstate' = [nstate EXCEPT ![FreshNode] = "live"]
  /\ nnext' = [nnext EXCEPT ![FreshNode] = Null]
  /\ ndata' = [ndata EXCEPT ![FreshNode] = CurrentMsg(p)]
  /\ ppc' = [ppc EXCEPT ![p] = "q_exchange"]
  /\ UNCHANGED <<kindVars, lifeVars, stepVars, ringVars, cleared, xclear, nfrees,
                 loggerVars, m_head, m_tail, phead, pk,
                 cpc, ctail, cnext, cout, xorder, delivered, hist, seqrun>>

\* prev_head = m_head.exchange(new_node, acq_rel)
LinkedEmplaceExchange(p) ==
  /\ variant = "linked"
  /\ ppc[p] = "q_exchange"
  /\ phead' = [phead EXCEPT ![p] = PrevHead(m_head, pnode[p])]
  /\ m_head' = pnode[p]
  /\ xorder' = Append(xorder, CurrentMsg(p))
  /\ ppc' = [ppc EXCEPT ![p] = "q_link"]
  /\ UNCHANGED <<kindVars, lifeVars, stepVars, ringVars, cleared, xclear, nfrees,
                 loggerVars, m_tail, nstate, nnext, ndata, pnode, pk,
                 cpc, ctail, cnext, cout, delivered, hist, seqrun>>

\* prev_head->next.store(new_node, release); push returns
LinkedEmplaceLink(p) ==
  /\ variant = "linked"
  /\ ppc[p] = "q_link"
  /\ nnext' = [nnext EXCEPT ![phead[p]] = LinkedNode(pnode[p])]
  /\ ppc' = [ppc EXCEPT ![p] = "idle"]
  /\ pk' = [pk EXCEPT ![p] = @ + 1]
  /\ UNCHANGED <<kindVars, lifeVars, stepVars, ringVars, cleared, xclear, nfrees,
                 loggerVars, m_head, m_tail, nstate, ndata, phead,
                 pnode, cpc, ctail, cnext, cout, xorder, delivered, hist, seqrun>>

\* pull: tail_ptr = m_tail.load(relaxed)
PullLoadTail ==
  /\ variant = "linked"
  /\ cpc = "idle"
  /\ ctail' = m_tail
  /\ cpc' = "q_load_next"
  /\ UNCHANGED <<kindVars, lifeVars, stepVars, ringVars, cleared, xclear, nfrees,
                 loggerVars, m_head, m_tail, nstate, nnext, ndata,
                 ppc, phead, pnode, pk, cnext, cout, xorder, delivered, hist, seqrun>>

\* next = tail_ptr->next.load(acquire); if (next == nullptr) return std::nullopt
PullLoadNext ==
  /\ variant = "linked"
  /\ cpc = "q_load_next"
  /\ \E n \in ReadNext(ctail) :
       /\ cnext' = n
       /\ cpc' = IF n = Null THEN "idle" ELSE "q_move"
  /\ UNCHANGED <<kindVars, lifeVars, stepVars, ringVars, cleared, xclear, nfrees,
                 loggerVars, m_head, m_tail, nstate, nnext, ndata,
                 ppc, phead, pnode, pk, ctail, cout, xorder, delivered, hist, seqrun>>

\* std::optional<T> result = std::move(next->data)
PullMove ==
  /\ variant = "linked"
  /\ cpc = "q_move"
  /\ \E v \in ReadData(PulledNode(ctail, cnext)) : cout' = v
  /\ ndata' = [ndata EXCEPT ![PulledNode(ctail, cnext)] =
                               IF @ = NoValue THEN NoValue ELSE MovedFrom]
  /\ cpc' = "q_store_tail"
  /\ UNCHANGED <<kindVars, lifeVars, stepVars, ringVars, cleared, xclear, nfrees,
                 loggerVars, m_head, m_tail, nstate, nnext,
                 ppc, phead, pnode, pk, ctail, cnext, xorder, delivered, hist, seqrun>>

\* m_tail.store(next, release)
PullStoreTail ==
  /\ variant = "linked"
  /\ cpc = "q_store_tail"
  /\ m_tail' = NewTail(ctail, cnext)
  /\ cpc' = "q_free"
  /\ UNCHANGED <<kindVars, lifeVars, stepVars, ringVars, cleared, xclear, nfrees,
                 loggerVars, m_head, nstate, nnext, ndata,
                 ppc, phead, pnode, pk, ctail, cnext, cout, xorder, delivered, hist,
                 seqrun>>

\* destroy(tail_ptr); deallocate(tail_ptr, 1); return result
PullFree ==
  /\ variant = "linked"
  /\ cpc = "q_free"
  /\ nstate' = [nstate EXCEPT ![FreedNode(ctail, cnext)] = "freed"]
  /\ nfrees' = [nfrees EXCEPT ![FreedNode(ctail, cnext)] = @ + 1]
  /\ xclear' = -1
  /\ delivered' = Append(delivered, cout)
  /\ cpc' = "idle"
  /\ UNCHANGED <<kindVars, lifeVars, stepVars, ringVars, cleared, loggerVars, m_head,
                 m_tail, nnext, ndata,
                 ppc, phead, pnode, pk, ctail, cnext, cout, xorder, hist, seqrun>>

\* --------------------------------- stable_queue: clear and destructor

\* the message in a node's data, for the record of what clear() passes over
DataOf(n) == IF nstate[n] = "live" /\ ndata[n] \in AllMessages THEN {ndata[n]} ELSE {}

\* clear: tail_ptr = m_tail.load(relaxed), called by the consumer
ClearLoadTail ==
  /\ variant = "linked"
  /\ life = "alive"
  /\ cpc = "idle"
  /\ ctail' = m_tail
  /\ cpc' = "c_load_next"
  /\ UNCHANGED <<kindVars, lifeVars, stepVars, ringVars, loggerVars, cleared, xclear,
                 nfrees,
                 m_head, m_tail, nstate, nnext, ndata, ppc, phead, pnode, pk, cnext, cout,
                 xorder, delivered, hist, seqrun>>

\* next = tail_ptr->next.load(acquire); if (next == nullptr) break;
\* clear returns to the consumer or to the destructor
ClearLoadNext ==
  /\ variant = "linked"
  /\ cpc = "c_load_next"
  /\ \E n \in ReadNext(ctail) :
       /\ cnext' = n
       /\ cpc' = IF n # Null THEN "c_store_tail"
                 ELSE IF life = "dying" THEN "x_destroy" ELSE "idle"
       /\ xclear' = IF n # Null THEN xclear
                    ELSE IF \A p \in Producers : ppc[p] = "idle" THEN Len(xorder) ELSE -1
  /\ UNCHANGED <<kindVars, lifeVars, stepVars, ringVars, loggerVars, cleared, nfrees,
                 m_head, m_tail, nstate, nnext, ndata, ppc, phead, pnode, pk, ctail, cout,
                 xorder, delivered, hist, seqrun>>

\* m_tail.store(next, release): the message in next is passed over
ClearStoreTail ==
  /\ variant = "linked"
  /\ cpc = "c_store_tail"
  /\ m_tail' = ClearNewTail(ctail, cnext)
  /\ cleared' = cleared \cup DataOf(cnext)
  /\ cpc' = "c_free"
  /\ UNCHANGED <<kindVars, lifeVars, stepVars, ringVars, loggerVars, xclear, nfrees,
                 m_head, nstate, nnext, ndata, ppc, phead, pnode, pk, ctail, cnext, cout,
                 xorder, delivered, hist, seqrun>>

\* destroy(tail_ptr); deallocate(tail_ptr, 1); tail_ptr = next
ClearFree ==
  /\ variant = "linked"
  /\ cpc = "c_free"
  /\ nstate' = [nstate EXCEPT ![ClearedNode(ctail, cnext)] = "freed"]
  /\ nfrees' = [nfrees EXCEPT ![ClearedNode(ctail, cnext)] = @ + 1]
  /\ ctail' = cnext
  /\ cpc' = "c_load_next"
  /\ UNCHANGED <<kindVars, lifeVars, stepVars, ringVars, loggerVars, cleared, xclear,
                 m_head, m_tail, nnext, ndata, ppc, phead, pnode, pk, cnext, cout,
                 xorder, delivered, hist, seqrun>>

\* ~stable_queue, called when no thread is in a call: clear(), whose first step
\* this is
LinkedDestructorClear ==
  /\ variant = "linked"
  /\ life = "alive"
  /\ ~Busy
  /\ life' = "dying"
  /\ ctail' = m_tail
  /\ cpc' = "c_load_next"
  /\ UNCHANGED <<kindVars, stepVars, ringVars, loggerVars, linkedVars, reqcap, dt, dh, wild,
                 m_head, m_tail, ppc, phead, pk, cout, delivered, hist, seqrun>>

\* destroy(m_head.load()); deallocate(m_head.load(), 1)
LinkedDestructorFree ==
  /\ variant = "linked"
  /\ cpc = "x_destroy"
  /\ nstate' = [nstate EXCEPT ![m_head] = "freed"]
  /\ nfrees' = [nfrees EXCEPT ![m_head] = @ + 1]
  /\ life' = "dead"
  /\ cpc' = "idle"
  /\ UNCHANGED <<kindVars, stepVars, ringVars, loggerVars, reqcap, dt, dh, wild,
                 cleared, xclear, m_head, m_tail, nnext, ndata, ppc, phead, pnode, pk,
                 ctail, cnext, cout, xorder, delivered, hist, seqrun>>

\* ---------------------------------------------------------------- Next

RingNext ==
  \/ \E p \in Producers : EmplaceFetchAdd(p)
  \/ \E p \in Producers : EmplaceLoadToken(p)
  \/ \E p \in Producers : EmplaceConstruct(p)
  \/ \E p \in Producers : EmplaceStoreToken(p)
  \/ TryPullLoadTail
  \/ TryPullLoadToken
  \/ TryPullMove
  \/ TryPullStoreToken
  \/ TryPullStoreTail

LoggerNext ==
  \/ RingNext
  \/ \E p \in Producers : PostLoop(p)
  \/ RunCheckStop
  \/ RunLoop
  \/ RequestStop

LinkedNext ==
  \/ \E p \in Producers : LinkedEmplaceAllocate(p)
  \/ \E p \in Producers : LinkedEmplaceExchange(p)
  \/ \E p \in Producers : LinkedEmplaceLink(p)
  \/ PullLoadTail
  \/ PullLoadNext
  \/ PullMove
  \/ PullStoreTail
  \/ PullFree

\* the ring from before its construction to after its destruction
RingLifeNext ==
  \/ \E cap \in 0..MaxRequest : Construct(cap)
  \/ (life = "alive" /\ RingNext)
  \/ DestructorLoad
  \/ DestructorDestroy
  \/ DestructorRelease

\* the linked queue with clear(), up to the end of its destructor
LinkedLifeNext ==
  \/ (life = "alive" /\ LinkedNext)
  \/ ClearLoadTail
  \/ ClearLoadNext
  \/ ClearStoreTail
  \/ ClearFree
  \/ LinkedDestructorClear
  \/ LinkedDestructorFree

Init == RingInit \/ LinkedInit

Next == RingNext \/ LinkedNext

Spec == Init /\ [][Next]_vars

\* the bare ring alone
RingSpec == RingInit /\ [][RingNext]_vars

LoggerSpec == LoggerInit /\ [][LoggerNext]_vars

RingLifeSpec == RingLifeInit /\ [][RingLifeNext]_vars

LinkedLifeSpec == LinkedInit /\ [][LinkedLifeNext]_vars

\* ------------------------------------------------------------- fairness

\* the steps of one producer thread, and of the consumer thread
ProducerStep(p) ==
  \/ EmplaceFetchAdd(p) \/ EmplaceLoadToken(p) \/ EmplaceConstruct(p)
  \/ EmplaceStoreToken(p) \/ PostLoop(p)
  \/ LinkedEmplaceExchange(p) \/ LinkedEmplaceLink(p)

ConsumerStep ==
  \/ TryPullLoadTail \/ TryPullLoadToken \/ TryPullMove \/ TryPullStoreToken
  \/ TryPullStoreTail \/ RunCheckStop \/ RunLoop
  \/ PullLoadTail \/ PullLoadNext \/ PullMove \/ PullStoreTail \/ PullFree

\* every thread that can take a step is scheduled in the end; a producer of the
\* linked queue need not start another push
Fairness == WF_vars(ConsumerStep) /\ \A p \in Producers : WF_vars(ProducerStep(p))

FairLoggerSpec == LoggerInit /\ [][LoggerNext]_vars /\ Fairness

LinkedSpec == LinkedInit /\ [][LinkedNext]_vars

FairLinkedSpec == LinkedInit /\ [][LinkedNext]_vars /\ Fairness

\* ---------------------------------------------------------- properties

Range(q) == {q[i] : i \in DOMAIN q}

BareRing == variant = "ring" /\ ~facade

IsPush(i) == hist[i][1] = "push"
IsPull(i) == hist[i][1] = "pull"
Ok(i) == hist[i][2]

\* elements accepted and not yet pulled after the first n calls of hist
Held(n) ==
  Cardinality({i \in 1..n : IsPush(i) /\ Ok(i)}) -
  Cardinality({i \in 1..n : IsPull(i) /\ Ok(i)})

\* the consumer is at the token load of try_pull and the load will make it return false
TryPullFails ==
  /\ variant = "ring"
  /\ cpc = "t_load_token"
  /\ ~ConsumerMayClaim(token[SlotIndex(ctail, m_mask)], ctail)

\* C1: in a run without overlapping calls, once every slot holds an undelivered
\* element and one or more pushes have then been rejected, one successful
\* try_pull makes the push that follows it return true.
C1_OnePullReadmitsPush ==
  BareRing =>
    \A i, j \in 1..Len(hist) :
      ( /\ i < j
        /\ j < Len(hist)
        /\ Held(i - 1) = m_capacity
        /\ \A n \in i..(j - 1) : IsPush(n) /\ ~Ok(n)
        /\ IsPull(j) /\ Ok(j)
        /\ IsPush(j + 1) )
      => Ok(j + 1)

\* the messages whose post has been called; those whose post has returned
PostCalled(m) == pk[m[1]] >= m[2] \/ (pk[m[1]] + 1 = m[2] /\ ppc[m[1]] # "idle")
PostReturned(m) == pk[m[1]] >= m[2]
Written(m) == m \in Range(sink)

\* the bound on the tickets of a run keeps a spinning post from its next emplace
Truncated == \E p \in Producers : ppc[p] = "post_retry" /\ m_head >= TicketLimit

LoggerMessages == Producers \X (1..MaxPosts)

\* C2: with the consumer running and no stop requested, every post that is
\* called returns in the end and its message is written to the sink in the end
\* (runs that the bound on the tickets cuts short are not counted).
C2_PostReturnsAndIsWritten ==
  \A m \in LoggerMessages :
    PostCalled(m) ~> ((PostReturned(m) /\ Written(m)) \/ stop \/ Truncated)

\* no try_pull has claimed an element yet
NoPullYet == m_tail = 0 /\ cpc \in {"idle", "t_load_token"}

\* C3: from a fresh ring and as long as no try_pull has claimed an element,
\* whatever the interleaving of the producers, a push that has returned has
\* returned true exactly when its ticket is below the capacity.
C3_FirstCapacityPushesAccepted ==
  (BareRing /\ NoPullYet) =>
    \A t \in 1..Len(results) :
      results[t] # "pending" => (results[t] = "true" <=> t - 1 < m_capacity)

C3_Witness ==
  /\ BareRing /\ NoPullYet /\ nprod > 1
  /\ m_capacity = 2
  /\ results = <<"true", "true", "false">>
  /\ pk[1] > 0 /\ pk[2] > 0

\* the i-th call of the scenario: C + 1 pushes, C pulls, one push
ScenarioCall(i) ==
  IF i <= m_capacity + 1 THEN "push"
  ELSE IF i <= 2 * m_capacity + 1 THEN "pull" ELSE "push"

\* hist is a prefix of the scenario, its pushes made by one producer
FollowsScenario ==
  /\ BareRing
  /\ Len(hist) <= 2 * m_capacity + 2
  /\ \A i \in 1..Len(hist) : hist[i][1] = ScenarioCall(i)
  /\ \A i, j \in 1..Len(hist) : (IsPush(i) /\ IsPush(j)) => hist[i][3][1] = hist[j][3][1]

\* C4: one producer, one consumer, no overlapping calls: the first C pushes
\* return true, the next one false, the C try_pull calls that follow return
\* true with the C accepted messages in push order, and the push after them
\* returns true.
C4_FillRejectDrainPush ==
  FollowsScenario =>
    \A i \in 1..Len(hist) :
      /\ Ok(i) <=> (i # m_capacity + 1)
      /\ IsPull(i) => hist[i][3] = hist[i - m_capacity - 1][3]

C4_Witness ==
  /\ FollowsScenario
  /\ m_capacity = 4
  /\ nprod = 1
  /\ Len(hist) = 2 * m_capacity + 2

\* the messages handed out so far
DeliveredVals == {delivered[i].val : i \in {j \in DOMAIN delivered : delivered[j] # NoValue}}

\* C5 as stated: whenever try_pull returns false, no message whose push returned
\* true is still undelivered.
C5_FalseMeansEmpty ==
  (BareRing /\ TryPullFails) => accepted \subseteq DeliveredVals

\* C5 amended: whenever try_pull returns false, the push holding the ticket the
\* consumer is at (m_tail) has not returned true.
C5_FalseMeansNextNotAccepted ==
  (BareRing /\ TryPullFails) =>
    ~(ctail < Len(results) /\ results[ctail + 1] = "true")

C5_Witness ==
  /\ BareRing /\ TryPullFails
  /\ accepted \ DeliveredVals # {}
  /\ ctail < Len(results) /\ results[ctail + 1] = "pending"

\* C6: the elements successive successful try_pull calls hand out were accepted
\* under strictly increasing tickets, so the messages of one producer come out in
\* the order that producer pushed them.
C6_DeliveredInTicketOrder ==
  BareRing =>
    \A i, j \in 1..Len(delivered) :
      /\ delivered[i] # NoValue
      /\ i < j /\ delivered[j] # NoValue =>
           /\ delivered[i].ticket < delivered[j].ticket
           /\ delivered[i].val[1] = delivered[j].val[1] =>
                delivered[i].val[2] < delivered[j].val[2]

C6_Witness ==
  /\ BareRing /\ nprod > 1
  /\ Len(delivered) >= 3
  /\ \E i \in 1..Len(results) : results[i] = "false"
  /\ \E i, j \in 1..Len(delivered) : delivered[i].val[1] # delivered[j].val[1]
  /\ \E i \in 1..Len(delivered) : delivered[i].ticket >= m_capacity

\* C7: what try_pull (ring) or pull (linked) hands out is a message that a push
\* accepted before, and no message is handed out twice.
C7_NoPhantomNoDouble ==
  /\ BareRing =>
       /\ \A i \in 1..Len(delivered) :
            delivered[i] # NoValue /\ delivered[i].val \in accepted
       /\ \A i, j \in 1..Len(delivered) :
            (i < j /\ delivered[i] # NoValue /\ delivered[j] # NoValue)
              => delivered[i].val # delivered[j].val
  /\ variant = "linked" =>
       /\ \A i \in 1..Len(delivered) : delivered[i] \in Range(xorder)
       /\ \A i, j \in 1..Len(delivered) : i < j => delivered[i] # delivered[j]

\* the ring has handed out elements of a second round, after a rejected push
C7_Witness ==
  /\ BareRing /\ nprod > 1
  /\ Len(delivered) >= 3
  /\ \E i \in 1..Len(results) : results[i] = "false"
  /\ \A i \in 1..Len(delivered) : delivered[i].val \in accepted

\* C8: the values successful pull calls return are, in order, the first pushed
\* values in the order of their m_head.exchange; the messages of one producer
\* come out in the order that producer pushed them.
C8_LinkedFifo ==
  variant = "linked" =>
    /\ Len(delivered) <= Len(xorder)
    /\ \A i \in 1..Len(delivered) : i <= Len(xorder) => delivered[i] = xorder[i]
    /\ \A i, j \in 1..Len(delivered) :
         (i < j /\ Len(delivered[i]) = 2 /\ Len(delivered[j]) = 2
                /\ delivered[i][1] = delivered[j][1])
           => delivered[i][2] < delivered[j][2]

\* two producers, the one that allocated its node second exchanging first, and
\* both messages pulled
C8_Witness ==
  /\ variant = "linked"
  /\ Len(delivered) >= 2
  /\ \E i, j \in 1..Len(delivered) : delivered[i][1] # delivered[j][1]
  /\ \E n, m \in Nodes :
       /\ n < m
       /\ ndata[n] # NoValue /\ nnext[m] = n

\* C9: once the producers have finished their pushes, a consumer that keeps
\* calling pull receives every pushed message: the n-th pushed message is the
\* n-th delivered in the end, and in the end the received sequence is the
\* pushed one.
C9_LinkedComplete ==
  /\ \A n \in 1..(MaxNodes - 1) :
       (Len(xorder) >= n) ~> (Len(delivered) >= n /\ delivered[n] = xorder[n])
  /\ <>[](delivered = xorder)

C9_Witness ==
  /\ variant = "linked"
  /\ Len(xorder) = MaxNodes - 1
  /\ delivered = xorder
  /\ \E i, j \in 1..Len(xorder) : xorder[i][1] # xorder[j][1]
  /\ ~Busy

\* the messages whose post has returned
Posted == {m \in LoggerMessages : PostReturned(m)}

\* C10: with a capacity no smaller than the number of posts and all posts
\* returned, when try_pull reports empty the sink holds every posted message
\* exactly once, the messages of each producer in the order it posted them.
C10_SufficientCapacityLossless ==
  ( /\ facade /\ TryPullFails
    /\ \A p \in Producers : ppc[p] = "idle"
    /\ PostsStarted <= m_capacity )
  =>
    /\ Len(sink) = Cardinality(Posted)
    /\ Range(sink) = Posted
    /\ \A i, j \in 1..Len(sink) :
         (i < j /\ sink[i][1] = sink[j][1]) => sink[i][2] < sink[j][2]

C10_Witness ==
  /\ facade /\ TryPullFails
  /\ \A p \in Producers : ppc[p] = "idle"
  /\ PostsStarted <= m_capacity
  /\ Len(sink) = MaxPosts
  /\ \E i, j \in 1..Len(sink) : sink[i][1] # sink[j][1]

\* the slots whose storage holds an element
LiveSlots == {i \in DOMAIN storage : storage[i] # NoValue}

\* C11: the destructor of the ring, run with every thread out of its calls,
\* runs the payload destructor only on slots that hold an element (never at a
\* ticket whose slot holds none) and, when it is done, no constructed element
\* is left undestroyed.
C11_DestructorDestroysLiveOnly ==
  variant = "ring" =>
    /\ wild = {}
    /\ life = "dead" => LiveSlots = {}

\* the nodes allocated so far: the dummy and one per push
Allocated == {n \in Nodes : nstate[n] # "unallocated"}

\* C12: in the linked queue no node is deallocated twice, whatever the pushes,
\* pulls and clears, and when the destructor is done every node ever allocated
\* has been deallocated exactly once.
C12_EveryNodeFreedOnce ==
  variant = "linked" =>
    /\ \A n \in Nodes : nfrees[n] <= 1
    /\ \A n \in Nodes : nfrees[n] = 1 <=> nstate[n] = "freed"
    /\ life = "dead" => \A n \in Allocated : nfrees[n] = 1

\* destruction after pushes by both producers, a pull and a clear
C12_Witness ==
  /\ variant = "linked"
  /\ life = "dead"
  /\ Allocated = Nodes
  /\ Len(delivered) >= 1
  /\ cleared # {}
  /\ \E i, j \in 1..Len(xorder) : xorder[i][1] # xorder[j][1]

\* the consumer is at the load of clear that finds next == nullptr: clear
\* returns, and no push is in progress
QuietClearReturns ==
  /\ variant = "linked"
  /\ life = "alive"
  /\ cpc = "c_load_next"
  /\ nnext[ctail] = Null
  /\ \A p \in Producers : ppc[p] = "idle"

\* the consumer is at the load of pull that decides between empty and a value
PullDecides == variant = "linked" /\ cpc = "q_load_next"

\* C13: when clear returns with no push in progress, m_tail == m_head and every
\* pushed message has been delivered or cleared; cleared messages are never
\* delivered; as long as no push has followed the clear, pull returns empty;
\* and the first message a pull hands out after the clear is the first one
\* pushed after it.
C13_ClearEmptiesAndRoundTrips ==
  /\ QuietClearReturns =>
       /\ m_tail = m_head /\ ctail = m_tail
       /\ Range(xorder) = Range(delivered) \cup cleared
  /\ variant = "linked" => Range(delivered) \cap cleared = {}
  /\ (PullDecides /\ xclear = Len(xorder)) => nnext[ctail] = Null
  /\ (variant = "linked" /\ cpc = "q_store_tail" /\ xclear >= 0) =>
       /\ Len(xorder) > xclear
       /\ cout = xorder[xclear + 1]

\* push x, y, z; pull gives x; clear; the pull after it is about to return empty
C13_Witness ==
  /\ PullDecides /\ nnext[ctail] = Null
  /\ Len(xorder) = 3
  /\ delivered = <<xorder[1]>>
  /\ cleared = {xorder[2], xorder[3]}
  /\ xclear = 3

\* c is a power of two
IsPowerOfTwo(c) == \E k \in 0..c : 2^k = c

\* C14: the constructor of the ring fails exactly when the requested capacity
\* is below 2 or no power of two, and then no queue exists; when it succeeds,
\* capacity() is the argument, head and tail are 0 and slot i's token is i.
C14_ConstructsIffPowerOfTwo ==
  (variant = "ring" /\ life # "unborn") =>
    /\ life = "failed" <=> ~(IsPowerOfTwo(reqcap) /\ reqcap >= 2)
    /\ life = "failed" => (m_capacity = 0 /\ token = <<>> /\ m_head = 0 /\ ~Busy)
    /\ life # "failed" => (m_capacity = reqcap /\ DOMAIN token = 0..(reqcap - 1))
    /\ (life = "alive" /\ m_head = 0) =>
         /\ m_tail = 0
         /\ \A i \in 0..(reqcap - 1) : token[i] = i /\ storage[i] = NoValue

\* the constructor has thrown for a capacity that is even and no power of two
C14_Witness ==
  /\ variant = "ring"
  /\ life = "failed"
  /\ reqcap = 6

\* C15 as stated: in every reachable state of the ring m_head - m_tail is at
\* most the capacity.
C15_HeadTailWithinCapacity ==
  (variant = "ring" /\ life = "alive") => m_head - m_tail <= m_capacity

\* the threads that are between their token check and their token store on slot j
ProducersIn(j) ==
  {p \in Producers : /\ ppc[p] \in {"e_construct", "e_store_token"}
                     /\ SlotIndex(phead[p], m_mask) = j}
ConsumerIn(j) ==
  cpc \in {"t_move", "t_store_token"} /\ SlotIndex(ctail, m_mask) = j

\* C16: every slot j has a token congruent to j or j + 1 modulo the capacity;
\* with no thread between its token check and its token store on the slot, the
\* storage holds an element exactly when the token is congruent to j + 1; and
\* at most one thread at a time is between its check and its store on a slot,
\* so no two threads access one slot's storage at once.
C16_SlotTokenProtocol ==
  BareRing =>
    \A j \in DOMAIN token :
      /\ token[j] % m_capacity \in {j, (j + 1) % m_capacity}
      /\ (ProducersIn(j) = {} /\ ~ConsumerIn(j)) =>
           (storage[j] # NoValue <=> token[j] % m_capacity = (j + 1) % m_capacity)
      /\ Cardinality(ProducersIn(j)) + (IF ConsumerIn(j) THEN 1 ELSE 0) <= 1

\* capacity 4: a producer constructs in a slot of the second round while the
\* consumer moves an element out of another slot and a third slot is occupied
C16_Witness ==
  /\ BareRing /\ m_capacity = 4
  /\ cpc = "t_move"
  /\ \E p \in Producers : ppc[p] = "e_construct" /\ phead[p] >= m_capacity
  /\ \E j \in DOMAIN token :
       ProducersIn(j) = {} /\ ~ConsumerIn(j) /\ storage[j] # NoValue

\* C17: in the linked queue under concurrent push and pull, m_head and m_tail
\* are never null and name allocated nodes, the node m_head names has
\* next == null, and the node a thread is about to read, write or deallocate
\* (tail_ptr and next of pull, prev_head of emplace_impl) is still allocated.
C17_LinkedMemorySafe ==
  variant = "linked" =>
    /\ m_head # Null /\ m_tail # Null
    /\ nstate[m_head] = "live" /\ nstate[m_tail] = "live"
    /\ nnext[m_head] = Null
    /\ cpc \in {"q_load_next", "q_move", "q_store_tail", "q_free"} =>
         (ctail # Null /\ nstate[ctail] = "live")
    /\ cpc \in {"q_move", "q_store_tail"} => (cnext # Null /\ nstate[cnext] = "live")
    /\ \A p \in Producers :
         ppc[p] = "q_link" => (phead[p] # Null /\ nstate[phead[p]] = "live")

\* a producer is about to store to prev_head->next while the consumer, having
\* deallocated a node before, is about to read the next of that same node
C17_Witness ==
  /\ variant = "linked"
  /\ \E n \in Nodes : nstate[n] = "freed"
  /\ cpc = "q_load_next"
  /\ \E p \in Producers : ppc[p] = "q_link" /\ phead[p] = ctail

\* the n-th exchanged message is the one of a producer that has not yet stored
\* to prev_head->next
StalledAt(n) ==
  /\ n <= Len(xorder)
  /\ \E p \in Producers : ppc[p] = "q_link" /\ xorder[n] = CurrentMsg(p)

\* the n-th exchanged message is behind a stalled producer's, or is that one
Behind(n) == n <= Len(xorder) /\ \E m \in 1..n : StalledAt(m)

\* pull is about to return empty although exchanged messages are undelivered
EmptyWithBacklog ==
  /\ PullDecides
  /\ nnext[ctail] = Null
  /\ Len(delivered) < Len(xorder)

\* C18: pull returns empty while pushed messages are undelivered only when the
\* producer of the first undelivered message has exchanged m_head and not yet
\* stored to prev_head->next (the tail node); and nothing is lost by it: every
\* message at or behind a stalled producer's is, once the store is done,
\* delivered at its place in the exchange order.
C18_StalledProducerHidesNoMessage ==
  /\ [](EmptyWithBacklog =>
          \E p \in Producers :
            /\ ppc[p] = "q_link" /\ phead[p] = ctail
            /\ xorder[Len(delivered) + 1] = CurrentMsg(p))
  /\ \A n \in 1..(MaxNodes - 1) :
       Behind(n) ~> (Len(delivered) >= n /\ delivered[n] = xorder[n])

\* pull is about to return empty while a producer is stalled before its store
\* and the push of another producer, serialized after it, has returned
C18_Witness ==
  /\ EmptyWithBacklog
  /\ \E p, q \in Producers :
       /\ p # q
       /\ ppc[p] = "q_link" /\ phead[p] = ctail
       /\ ppc[q] = "idle" /\ pk[q] >= 1
       /\ \E i, j \in 1..Len(xorder) :
            i < j /\ xorder[i] = CurrentMsg(p) /\ xorder[j] = <<q, pk[q]>>

\* the tickets above h under which a push has been accepted
AcceptedAbove(h) == {t \in (h + 1)..(Len(results) - 1) : results[t + 1] = "true"}

\* C19: every push, rejected or not, keeps the ticket it drew; once the push
\* with ticket h has returned false, m_tail never gets past h, no push with a
\* ticket of h + capacity or more returns true, and at most capacity - 1
\* pushes with later tickets are accepted.
C19_RejectedTicketIsBurnt ==
  BareRing =>
    /\ m_head = Len(results)
    /\ \A h \in 0..(Len(results) - 1) :
         results[h + 1] = "false" =>
           /\ m_tail <= h
           /\ \A t \in (h + m_capacity)..(Len(results) - 1) : results[t + 1] # "true"
           /\ Cardinality(AcceptedAbove(h)) <= m_capacity - 1

\* capacity 2: ticket 2 rejected, ticket 3 accepted, ticket 4 rejected, and the
\* consumer fails at position 2
C19_Witness ==
  /\ BareRing /\ m_capacity = 2
  /\ Len(results) >= 5
  /\ results[3] = "false" /\ results[4] = "true" /\ results[5] = "false"
  /\ m_tail = 2 /\ TryPullFails

\* a thread inside a call of emplace_impl, of try_pull
InEmplace(p) == ppc[p] \in {"e_load_token", "e_construct", "e_store_token"}
InTryPull == cpc \in {"t_load_token", "t_move", "t_store_token", "t_store_tail"}

\* C20: a call of push/emplace takes at most four steps of its thread (the
\* fetch_add, one token load, the construction, one token store), a call of
\* try_pull at most five, each step on its turn exactly once; and a thread
\* inside a call can always take its next step, whatever the others do.
C20_WaitFree ==
  variant = "ring" =>
    /\ \A p \in Producers :
         /\ psteps[p] <= 4
         /\ ppc[p] = "e_load_token" => psteps[p] = 1
         /\ ppc[p] = "e_construct" => psteps[p] = 2
         /\ ppc[p] = "e_store_token" => psteps[p] = 3
         /\ InEmplace(p) =>
              ENABLED (EmplaceLoadToken(p) \/ EmplaceConstruct(p) \/ EmplaceStoreToken(p))
    /\ csteps <= 5
    /\ cpc = "t_load_token" => csteps = 1
    /\ cpc = "t_move" => csteps = 2
    /\ cpc = "t_store_token" => csteps = 3
    /\ cpc = "t_store_tail" => csteps = 4
    /\ InTryPull =>
         ENABLED (TryPullLoadToken \/ TryPullMove \/ TryPullStoreToken \/ TryPullStoreTail)

\* in a run of the logger one producer is stalled before its token store; after
\* it drew its ticket another producer has finished an accepted emplace and the
\* consumer a try_pull that returned false
C20_Witness ==
  /\ variant = "ring" /\ facade
  /\ \E p, q \in Producers :
       /\ ppc[q] = "e_store_token"
       /\ ppc[p] = "idle" /\ psteps[p] = 4 /\ phead[p] > phead[q]
  /\ cpc = "run_check" /\ csteps = 2

====
